---- MODULE Spec2Model ----
(***************************************************************************)
(* Model of src/main.py: the /api/audit handler audit_url, its module-     *)
(* level CACHE and the report it builds from a PageSpeed payload.          *)
(*                                                                         *)
(* Numbers that are fractions in the source are kept in hundredths         *)
(* (0.72 is 72, the 0.9 threshold is 90); seconds stay seconds.            *)
(* The handler is a coroutine on a single-threaded event loop: it runs     *)
(* atomically up to its only suspension point that matters, the            *)
(* `await client.get(...)` of line 76, and atomically from there to its    *)
(* return.                                                                 *)
(***************************************************************************)
EXTENDS Integers, Sequences, FiniteSets, TLC

VARIABLES
    CACHE,      \* src/main.py:32  normalized url -> [data, timestamp]
    clock,      \* what time.time() returns, in seconds
    ticks,      \* how often the clock has advanced (bounds the model)
    calls,      \* the audit_url coroutines suspended in client.get, oldest first
    returned,   \* the audit_url call that returned last, with what it returned
    data        \* the payload the provider answers with when it answers 200

vars == <<CACHE, clock, ticks, calls, returned, data>>

(***************************************************************************)
(* Bounds of the model.                                                    *)
(***************************************************************************)
MaxCalls == 2
MaxTicks == 2
MaxAudits == 6

TickSteps == {1, 599}

(***************************************************************************)
(* Program constants.                                                      *)
(***************************************************************************)
CACHE_DURATION == 600
TopOpportunities == 5
OpportunityThreshold == 90
DefaultOpportunityScore == 100
HTTP_TOO_MANY_REQUESTS == 429

\* dict.get on a missing key, and a JSON null: kept apart from every number
\* a payload carries.
NoKey == -1
JsonNull == -2

(***************************************************************************)
(* Strings: str.startswith and the `in` operator on str.                   *)
(***************************************************************************)
StartsWith(s, p) ==
    /\ Len(s) >= Len(p)
    /\ SubSeq(s, 1, Len(p)) = p

Contains(s, p) ==
    \E i \in 1..(Len(s) - Len(p) + 1) : SubSeq(s, i, i + Len(p) - 1) = p

\* lines 40-44
NormalizeUrl(rawUrl) ==
    IF ~StartsWith(rawUrl, "http") THEN "https://" \o rawUrl ELSE rawUrl

ForceMockPrefix(url) == StartsWith(url, "mock")

\* line 68
ForceMock(url) == Contains(url, "mock")

(***************************************************************************)
(* The upstream payload.  A decoded payload is                             *)
(*   [categories |-> [performance, accessibility, best_practices, seo],    *)
(*    audits |-> sequence of audits in the dict's iteration order]         *)
(* with a category score a number or NoKey, and an audit                   *)
(*   [id, title, description, score, type, saving, displayValue]           *)
(* where type is details.type ("none": no details or no type), saving is   *)
(* details.overallSavingsMs, and score/saving are NoKey when the key is    *)
(* missing; score is JsonNull for "score": null.                           *)
(***************************************************************************)
RECURSIVE FindAudit(_, _)
\* audits.get(key, {}): <<>> for the default {}
FindAudit(audits, key) ==
    IF audits = <<>> THEN <<>>
    ELSE IF Head(audits).id = key THEN <<Head(audits)>>
    ELSE FindAudit(Tail(audits), key)

\* lines 93-94
get_metric(audits, key) ==
    LET a == FindAudit(audits, key)
    IN  IF a = <<>> \/ a[1].displayValue = "" THEN "N/A" ELSE a[1].displayValue

\* lines 96-97
get_score(audits, key) ==
    LET a == FindAudit(audits, key)
    IN  IF a = <<>> \/ a[1].score = NoKey THEN 0 ELSE a[1].score

\* categories.get(name, {}).get("score", 0), lines 118-121
CategoryScore(v) == IF v = NoKey THEN 0 ELSE v

\* audit.get("score", 1) < 0.9 raises TypeError on None (line 102); `and`
\* evaluates it only for an audit of type "opportunity".
ScoreRaises(audit) == audit.type = "opportunity" /\ audit.score = JsonNull

SelectedAtThreshold(audit) ==
    /\ audit.type = "opportunity"
    /\ (IF audit.score = NoKey THEN DefaultOpportunityScore ELSE audit.score)
           <= OpportunityThreshold

\* line 102
Selected(audit) ==
    /\ audit.type = "opportunity"
    /\ (IF audit.score = NoKey THEN DefaultOpportunityScore ELSE audit.score)
           < OpportunityThreshold

\* lines 103-109
Opportunity(audit) ==
    [id          |-> audit.id,
     title       |-> audit.title,
     description |-> audit.description,
     score       |-> audit.score,
     saving      |-> IF audit.saving = NoKey THEN 0 ELSE audit.saving]

RECURSIVE Collect(_)
\* lines 100-109: the selected audits, in iteration order
Collect(audits) ==
    IF audits = <<>> THEN <<>>
    ELSE IF Selected(Head(audits))
         THEN <<Opportunity(Head(audits))>> \o Collect(Tail(audits))
         ELSE Collect(Tail(audits))

RECURSIVE InsertDescending(_, _)
\* x goes behind every element whose saving is at least its own: list.sort
\* is stable, and reverse=True keeps equal elements in their original order.
InsertDescending(sorted, x) ==
    IF sorted = <<>> THEN <<x>>
    ELSE IF Head(sorted).saving >= x.saving
         THEN <<Head(sorted)>> \o InsertDescending(Tail(sorted), x)
         ELSE <<x>> \o sorted

RECURSIVE SortBySaving(_)
\* line 112
SortBySaving(opps) ==
    IF opps = <<>> THEN <<>>
    ELSE InsertDescending(SortBySaving(SubSeq(opps, 1, Len(opps) - 1)),
                          opps[Len(opps)])

\* line 113
TakeTop(opps) ==
    SubSeq(opps, 1, IF Len(opps) < TopOpportunities THEN Len(opps)
                    ELSE TopOpportunities)

\* lines 99-113
ExtractOpportunities(audits) == TakeTop(SortBySaving(Collect(audits)))

\* lines 115-137
RealReport(url, payload) ==
    [url    |-> url,
     scores |-> [performance    |-> CategoryScore(payload.categories.performance),
                 accessibility  |-> CategoryScore(payload.categories.accessibility),
                 best_practices |-> CategoryScore(payload.categories.best_practices),
                 seo            |-> CategoryScore(payload.categories.seo)],
     metrics |-> [fcp       |-> get_metric(payload.audits, "first-contentful-paint"),
                  fcp_score |-> get_score(payload.audits, "first-contentful-paint"),
                  lcp       |-> get_metric(payload.audits, "largest-contentful-paint"),
                  lcp_score |-> get_score(payload.audits, "largest-contentful-paint"),
                  cls       |-> get_metric(payload.audits, "cumulative-layout-shift"),
                  cls_score |-> get_score(payload.audits, "cumulative-layout-shift"),
                  tbt       |-> get_metric(payload.audits, "total-blocking-time"),
                  tbt_score |-> get_score(payload.audits, "total-blocking-time"),
                  si        |-> get_metric(payload.audits, "speed-index"),
                  si_score  |-> get_score(payload.audits, "speed-index")],
     opportunities |-> ExtractOpportunities(payload.audits),
     is_mock |-> FALSE]

\* lines 146-151
MockScores ==
    [performance |-> 72, accessibility |-> 85, best_practices |-> 90, seo |-> 92]

\* lines 152-163
MockMetrics ==
    [fcp |-> "1.2 s",  fcp_score |-> 85,
     lcp |-> "2.1 s",  lcp_score |-> 88,
     cls |-> "0.05",   cls_score |-> 95,
     tbt |-> "120 ms", tbt_score |-> 90,
     si  |-> "1.8 s",  si_score  |-> 82]

\* lines 164-179
MockOpportunities ==
    << [id |-> "unused-javascript",
        title |-> "Reduce unused JavaScript",
        description |-> "Remove unused JavaScript to reduce bytes consumed by network activity.",
        score |-> 65, saving |-> 350],
       [id |-> "modern-image-formats",
        title |-> "Serve images in next-gen formats",
        description |-> "Image formats like WebP and AVIF often provide better compression than PNG or JPEG.",
        score |-> 70, saving |-> 200] >>

MockReportUnflagged(url) ==
    [url |-> url, scores |-> MockScores, metrics |-> MockMetrics,
     opportunities |-> MockOpportunities, is_mock |-> FALSE]

\* lines 143-181
MockReport(url) ==
    [url |-> url, scores |-> MockScores, metrics |-> MockMetrics,
     opportunities |-> MockOpportunities, is_mock |-> TRUE]

\* lines 84-137 on a decoded payload: the report, or the exception the
\* extraction raises.
Normalize(url, payload) ==
    IF \E i \in 1..Len(payload.audits) : ScoreRaises(payload.audits[i])
    THEN [ok |-> FALSE, exc |-> "TypeError"]
    ELSE [ok |-> TRUE, report |-> RealReport(url, payload)]

(***************************************************************************)
(* The upstream answer to client.get (line 76): a response with a status   *)
(* and a body, or no response.  body.json is <<payload>> when the body     *)
(* decodes and <<>> when response.json() raises.                           *)
(***************************************************************************)
\* payloads of the provider
NoCategories ==
    [performance |-> NoKey, accessibility |-> NoKey,
     best_practices |-> NoKey, seo |-> NoKey]

Audit(id, type, score, saving, display) ==
    [id |-> id, title |-> id, description |-> id, score |-> score,
     type |-> type, saving |-> saving, displayValue |-> display]

GoodPayload ==
    [categories |-> [performance |-> 95, accessibility |-> 80,
                     best_practices |-> NoKey, seo |-> 100],
     audits |-> << Audit("first-contentful-paint", "none", 98, NoKey, "0.9 s"),
                   Audit("unused-javascript", "opportunity", 50, 150, ""),
                   Audit("speed-index", "none", JsonNull, NoKey, "") >>]

NullScorePayload ==
    [categories |-> NoCategories,
     audits |-> << Audit("redirects", "opportunity", JsonNull, 0, "") >>]

Undecodable == [json |-> <<>>]

Response(status, body) == [kind |-> "response", status |-> status, body |-> body]
NetworkError == [kind |-> "network_error", status |-> 0, body |-> Undecodable]
Timeout == [kind |-> "timeout", status |-> 0, body |-> Undecodable]

Responses(payload) ==
    { Response(200, [json |-> <<payload>>]), Response(200, Undecodable),
      Response(200, [json |-> <<NullScorePayload>>]),
      Response(429, Undecodable), Response(500, Undecodable),
      NetworkError, Timeout }

\* httpx.Response.is_success, which raise_for_status tests (line 80)
IsSuccess(status) == 200 <= status /\ status <= 299

Raise(class, status) == [class |-> class, status |-> status]

\* the classes raised below that derive from Exception (all of them do:
\* httpx's errors, json's ValueError, TypeError and fastapi.HTTPException)
ExceptionClasses ==
    { "Exception", "ConnectError", "ReadTimeout", "HTTPStatusError",
      "HTTPException", "JSONDecodeError", "TypeError" }

Returns(report) == [exc |-> <<>>, result |-> <<report>>]
Raises(e) == [exc |-> <<e>>, result |-> <<>>]

\* lines 76-137, the body of the inner try once client.get has ended
InnerTry(url, resp) ==
    IF resp.kind = "network_error" THEN Raises(Raise("ConnectError", 0))
    ELSE IF resp.kind = "timeout" THEN Raises(Raise("ReadTimeout", 0))
    ELSE IF resp.status = HTTP_TOO_MANY_REQUESTS THEN Raises(Raise("Exception", 0))
    ELSE IF ~IsSuccess(resp.status)
         THEN Raises(Raise("HTTPStatusError", resp.status))
    ELSE IF resp.body.json = <<>> THEN Raises(Raise("JSONDecodeError", 0))
    ELSE LET n == Normalize(url, resp.body.json[1])
         IN  IF n.ok THEN Returns(n.report) ELSE Raises(Raise(n.exc, 0))

\* lines 138-139: except httpx.HTTPStatusError -> raise HTTPException
InnerExcept(out) ==
    IF out.exc # <<>> /\ out.exc[1].class = "HTTPStatusError"
    THEN Raises(Raise("HTTPException", out.exc[1].status))
    ELSE out

OuterExceptPassesHTTPException(url, out) ==
    IF out.exc # <<>> /\ out.exc[1].class # "HTTPException"
    THEN Returns(MockReport(url))
    ELSE out

OuterExceptOnlyHttpx(url, out) ==
    IF out.exc # <<>>
       /\ out.exc[1].class \in {"ConnectError", "ReadTimeout", "HTTPStatusError"}
    THEN Returns(MockReport(url))
    ELSE out

\* lines 141-181: except Exception -> the mock report
OuterExcept(url, out) ==
    IF out.exc # <<>> /\ out.exc[1].class \in ExceptionClasses
    THEN Returns(MockReport(url))
    ELSE out

\* lines 67-181 from the answer of the upstream on
Handle(url, resp) == OuterExcept(url, InnerExcept(InnerTry(url, resp)))

\* lines 67-69 and 141-181: the forced mock
HandleForceMock(url) == OuterExcept(url, Raises(Raise("Exception", 0)))

(***************************************************************************)
(* The cache, lines 46-51 and 183-187.                                     *)
(***************************************************************************)
CacheFreshInclusive(cache, url, now) ==
    /\ url \in DOMAIN cache
    /\ now - cache[url].timestamp <= CACHE_DURATION

\* lines 48-50
CacheFresh(cache, url, now) ==
    /\ url \in DOMAIN cache
    /\ now - cache[url].timestamp < CACHE_DURATION

CachePutNothing(cache, url, result, now) == cache

CachePutPurging(cache, url, result, now) ==
    (url :> [data |-> result, timestamp |-> now])
        @@ [k \in {j \in DOMAIN cache : now - cache[j].timestamp < CACHE_DURATION}
               |-> cache[k]]

CachePutOnlyReal(cache, url, result, now) ==
    IF result.is_mock
    THEN cache
    ELSE (url :> [data |-> result, timestamp |-> now]) @@ cache

CachePutKeepsLater(cache, url, result, now) ==
    IF url \in DOMAIN cache /\ cache[url].timestamp > now
    THEN cache
    ELSE (url :> [data |-> result, timestamp |-> now]) @@ cache

\* lines 184-187
CachePut(cache, url, result, now) ==
    (url :> [data |-> result, timestamp |-> now]) @@ cache

(***************************************************************************)
(* The calls.                                                              *)
(***************************************************************************)
\* a call suspended in client.get: its locals, and the request it sent
Awaiting(rawUrl, url, now) ==
    [input |-> rawUrl, url |-> url, now |-> now,
     params |-> [url |-> url, strategy |-> "mobile"]]

\* the write of a call that found its lookup time `now` replaces an entry of
\* a later time: the entry of a call that started after this one
ReplacesLater(cache, url, now) ==
    url \in DOMAIN cache /\ cache[url].timestamp > now

\* what a call that has ended leaves behind: upstream counts its client.get
\* calls, resp is <<>> or <<the upstream's answer>>, hit says the report came
\* from the cache, out is what the caller gets (a report or an exception),
\* and replaced says its write replaced the entry of a call that started
\* after it
Done(rawUrl, url, now, hit, upstream, resp, replaced, out) ==
    [pc |-> "done", input |-> rawUrl, url |-> url, now |-> now, hit |-> hit,
     upstream |-> upstream, resp |-> resp, replaced |-> replaced,
     result |-> out.result, raised |-> out.exc]

RemoveAt(seq, i) == SubSeq(seq, 1, i - 1) \o SubSeq(seq, i + 1, Len(seq))

RawUrls == { "example.com", "example.com/mock" }

Init ==
    /\ CACHE = <<>>
    /\ clock = 0
    /\ ticks = 0
    /\ calls = <<>>
    /\ returned = [pc |-> "none"]
    /\ data = GoodPayload

\* time passes
Tick(d) ==
    /\ ticks < MaxTicks
    /\ ticks' = ticks + 1
    /\ clock' = clock + d
    /\ UNCHANGED <<CACHE, calls, returned, data>>

\* lines 39-76: a request arrives and audit_url runs to its return (cache
\* hit, forced mock) or to its suspension in client.get
AuditUrl(rawUrl) ==
    /\ LET url == NormalizeUrl(rawUrl)
           now == clock
       IN  IF CacheFresh(CACHE, url, now)
           THEN /\ returned' = Done(rawUrl, url, now, TRUE, 0, <<>>, FALSE,
                                    Returns(CACHE[url].data))
                /\ UNCHANGED <<CACHE, calls>>
           ELSE IF ForceMock(url)
           THEN LET out == HandleForceMock(url)
                IN  /\ returned' = Done(rawUrl, url, now, FALSE, 0, <<>>,
                                         ReplacesLater(CACHE, url, now), out)
                    /\ CACHE' = IF out.exc = <<>>
                                THEN CachePut(CACHE, url, out.result[1], now)
                                ELSE CACHE
                    /\ UNCHANGED calls
           ELSE /\ Len(calls) < MaxCalls
                /\ calls' = Append(calls, Awaiting(rawUrl, url, now))
                /\ UNCHANGED <<CACHE, returned>>
    /\ UNCHANGED <<clock, ticks, data>>

AuditUrlResumeRetriesOnce(i, resp) ==
    /\ i \in 1..Len(calls)
    /\ \E again \in Responses(data) :
          LET url == calls[i].url
              now == calls[i].now
              failed == Handle(url, resp).result[1].is_mock
              out == Handle(url, IF failed THEN again ELSE resp)
          IN  /\ returned' = Done(calls[i].input, url, now, FALSE,
                                  IF failed THEN 2 ELSE 1,
                                  IF failed THEN <<resp, again>> ELSE <<resp>>,
                                  ReplacesLater(CACHE, url, now), out)
              /\ CACHE' = IF out.exc = <<>>
                          THEN CachePut(CACHE, url, out.result[1], now)
                          ELSE CACHE
    /\ calls' = RemoveAt(calls, i)
    /\ UNCHANGED <<clock, ticks, data>>

AuditUrlResumeRetries(i, resp) ==
    /\ i \in 1..Len(calls)
    /\ LET url == calls[i].url
           now == calls[i].now
           out == Handle(url, resp)
       IN  IF out.result[1].is_mock
           THEN /\ calls' = Append(RemoveAt(calls, i), calls[i])
                /\ UNCHANGED <<CACHE, returned>>
           ELSE /\ returned' = Done(calls[i].input, url, now, FALSE, 1, <<resp>>,
                                    ReplacesLater(CACHE, url, now), out)
                /\ CACHE' = CachePut(CACHE, url, out.result[1], now)
                /\ calls' = RemoveAt(calls, i)
    /\ UNCHANGED <<clock, ticks, data>>

AuditUrlResumeShared(i, resp) ==
    /\ i \in 1..Len(calls)
    /\ LET url == calls[i].url
           now == calls[i].now
           out == Handle(url, resp)
       IN  /\ returned' = Done(calls[i].input, url, now, FALSE, 1, <<resp>>,
                            ReplacesLater(CACHE, url, now), out)
           /\ CACHE' = IF out.exc = <<>>
                       THEN CachePut(CACHE, url, out.result[1], now)
                       ELSE CACHE
           /\ calls' = SelectSeq(calls, LAMBDA c : c.url # url)
    /\ UNCHANGED <<clock, ticks, data>>

\* lines 76-189: client.get ends and audit_url runs to its return
AuditUrlResume(i, resp) ==
    /\ i \in 1..Len(calls)
    /\ LET url == calls[i].url
           now == calls[i].now
           out == Handle(url, resp)
       IN  /\ returned' = Done(calls[i].input, url, now, FALSE, 1, <<resp>>,
                            ReplacesLater(CACHE, url, now), out)
           /\ CACHE' = IF out.exc = <<>>
                       THEN CachePut(CACHE, url, out.result[1], now)
                       ELSE CACHE
    /\ calls' = RemoveAt(calls, i)
    /\ UNCHANGED <<clock, ticks, data>>

Next ==
    \/ \E d \in TickSteps : Tick(d)
    \/ \E rawUrl \in RawUrls : AuditUrl(rawUrl)
    \/ \E i \in 1..MaxCalls, resp \in Responses(data) : AuditUrlResume(i, resp)

Spec == Init /\ [][Next]_vars

(***************************************************************************)
(* FairSpec: the calls for one URL that goes to the upstream, as in Spec,   *)
(* with the upstream's answers reduced to one of each kind that matters    *)
(* for a call's end (a payload, an error status, no answer within the      *)
(* timeout), and with the fairness the code                                *)
(* has: client.get carries timeout=60.0 (line 76), so the request of a     *)
(* call in client.get ends, with an answer or with a timeout, and the      *)
(* event loop then resumes the call.  The fairness is stated for the call  *)
(* that has been in client.get the longest, which is all the model needs.  *)
(***************************************************************************)
Outcomes(payload) ==
    { Response(200, [json |-> <<payload>>]), Response(500, Undecodable), Timeout }

FairNext ==
    \/ \E d \in TickSteps : Tick(d)
    \/ AuditUrl("example.com")
    \/ \E i \in 1..MaxCalls, resp \in Outcomes(data) : AuditUrlResume(i, resp)

FairSpec ==
    /\ Init
    /\ [][FairNext]_vars
    /\ WF_vars(\E resp \in Outcomes(data) : AuditUrlResume(1, resp))

(***************************************************************************)
(* NormSpec: the normalizer on every payload of up to MaxAudits audits.    *)
(* One call for example.com misses the empty cache, the provider answers   *)
(* 200 with the payload, and the call returns what lines 84-137 build.     *)
(***************************************************************************)
AuditKey(i) ==
    IF i = 1 THEN "first-contentful-paint" ELSE "audit-" \o ToString(i)

\* details.type, score and details.overallSavingsMs of the audits drawn
AuditShapes ==
    { [type |-> "opportunity", score |-> 50,    saving |-> 100],
      [type |-> "opportunity", score |-> 89,    saving |-> NoKey],
      [type |-> "opportunity", score |-> 90,    saving |-> 300],
      [type |-> "opportunity", score |-> NoKey, saving |-> 300],
      [type |-> "table",       score |-> 50,    saving |-> 400] }

PayloadOf(shapes) ==
    [categories |-> [performance |-> 95, accessibility |-> NoKey,
                     best_practices |-> 80, seo |-> NoKey],
     audits |-> [i \in 1..Len(shapes) |->
                    Audit(AuditKey(i), shapes[i].type, shapes[i].score,
                          shapes[i].saving, IF i = 1 THEN "0.9 s" ELSE "")]]

Payloads ==
    { PayloadOf(shapes) :
        shapes \in UNION { [1..n -> AuditShapes] : n \in 0..MaxAudits } }

NormInit ==
    /\ CACHE = <<>>
    /\ clock = 0
    /\ ticks = 0
    /\ calls = <<>>
    /\ returned = [pc |-> "none"]
    /\ data \in Payloads

NormNext ==
    \/ returned.pc = "none" /\ calls = <<>> /\ AuditUrl("example.com")
    \/ AuditUrlResume(1, Response(200, [json |-> <<data>>]))

NormSpec == NormInit /\ [][NormNext]_vars

(***************************************************************************)
(* UrlSpec: the first call of a fresh process, over a wider set of input   *)
(* URLs, at any time and with any answer of the provider.                  *)
(***************************************************************************)
UrlInputs ==
    { "example.com", "https://example.com", "http://example.com",
      "httpbin.org", "www.http.cat", "example.com/mock", "httpmock.io" }

UrlNext ==
    \/ \E d \in TickSteps : returned.pc = "none" /\ Tick(d)
    \/ \E rawUrl \in UrlInputs :
          returned.pc = "none" /\ calls = <<>> /\ AuditUrl(rawUrl)
    \/ \E resp \in Responses(data) : AuditUrlResume(1, resp)

UrlSpec == Init /\ [][UrlNext]_vars

(***************************************************************************)
(* Properties.                                                             *)
(***************************************************************************)
Ended == returned.pc = "done"
Answered(resp) == Ended /\ returned.resp = <<resp>>

\* the answers the claims tell apart
UpstreamFailures == { NetworkError, Timeout, Response(200, Undecodable) }
IsStatusError(resp) ==
    /\ resp.kind = "response"
    /\ ~IsSuccess(resp.status)
    /\ resp.status # HTTP_TOO_MANY_REQUESTS

\* C1: whatever the upstream did, a call that ends hands its caller a
\* report (real or mock) and no exception.
AuditNeverRaises ==
    Ended => /\ returned.raised = <<>>
             /\ Len(returned.result) = 1
             /\ returned.result[1].is_mock \in BOOLEAN

\* C1 witness: a 200 payload the normalizer cannot process ended in a report.
AuditNeverRaisesWitness ==
    /\ Answered(Response(200, [json |-> <<NullScorePayload>>]))
    /\ returned.raised = <<>>
    /\ returned.result[1].is_mock

\* C2 as claimed: a non-2xx answer other than 429 reaches the caller as an
\* HTTP error carrying the upstream status.
StatusErrorPropagates ==
    (Ended /\ returned.resp # <<>> /\ IsStatusError(returned.resp[1]))
        => /\ returned.raised # <<>>
           /\ returned.raised[1].class = "HTTPException"
           /\ returned.raised[1].status = returned.resp[1].status

\* C3: a 429 from the upstream ends in a mock report and never in an error.
QuotaFallsBack ==
    Answered(Response(HTTP_TOO_MANY_REQUESTS, Undecodable))
        => /\ returned.raised = <<>>
           /\ Len(returned.result) = 1
           /\ returned.result[1].is_mock
           /\ ~returned.hit

\* C3 witness: a call that missed the cache got a 429 and returned.
QuotaFallsBackWitness ==
    /\ Answered(Response(HTTP_TOO_MANY_REQUESTS, Undecodable))
    /\ returned.upstream = 1
    /\ returned.result # <<>>

\* C4: a call whose URL contains "mock" never reaches the upstream and gets
\* a mock report, in every cache state; no such call is ever in client.get.
MockUrlNeverUpstream ==
    /\ (Ended /\ Contains(returned.input, "mock"))
          => /\ returned.upstream = 0
             /\ returned.resp = <<>>
             /\ returned.raised = <<>>
             /\ returned.result[1].is_mock
    /\ \A i \in 1..Len(calls) : ~Contains(calls[i].input, "mock")

\* C4 witness: a mock URL answered from the cache, an earlier call having
\* stored the entry, while another call is in flight.
MockUrlNeverUpstreamWitness ==
    /\ Ended
    /\ Contains(returned.input, "mock")
    /\ returned.hit
    /\ returned.now > CACHE[returned.url].timestamp
    /\ calls # <<>>

\* C5 as claimed: the URL used as cache key and as upstream parameter is the
\* input when the input has an http/https scheme and "https://" + input
\* otherwise.
HasScheme(rawUrl) ==
    StartsWith(rawUrl, "http://") \/ StartsWith(rawUrl, "https://")

WithScheme(rawUrl) == IF HasScheme(rawUrl) THEN rawUrl ELSE "https://" \o rawUrl

SchemeNormalized ==
    /\ \A i \in 1..Len(calls) :
          /\ calls[i].url = WithScheme(calls[i].input)
          /\ calls[i].params.url = WithScheme(calls[i].input)
    /\ (Ended /\ returned.raised = <<>>)
          => /\ returned.url = WithScheme(returned.input)
             /\ WithScheme(returned.input) \in DOMAIN CACHE

\* C6: a lookup serves the stored report exactly when now - createdAt < 600
\* and changes nothing then; otherwise the call goes on as a miss, and a
\* lookup never removes or changes the entry it found stale.
FreshnessWindow ==
    [][\A rawUrl \in RawUrls :
         AuditUrl(rawUrl) =>
            LET url == NormalizeUrl(rawUrl)
                stored == url \in DOMAIN CACHE
                fresh == stored /\ clock - CACHE[url].timestamp < CACHE_DURATION
            IN  IF fresh
                THEN /\ returned'.hit
                     /\ returned'.result = <<CACHE[url].data>>
                     /\ returned'.now = clock
                     /\ UNCHANGED <<CACHE, calls>>
                ELSE /\ \/ Len(calls') = Len(calls) + 1
                        \/ ~returned'.hit
                     /\ (stored /\ Len(calls') = Len(calls) + 1)
                            => /\ UNCHANGED CACHE
                               /\ calls'[Len(calls')].url = url]_vars

\* C6 witness: at exactly 600 seconds the lookup missed, and the call is in
\* client.get while the stale entry is still stored.
FreshnessWindowWitness ==
    \E i \in 1..Len(calls) :
        /\ calls[i].url \in DOMAIN CACHE
        /\ calls[i].now - CACHE[calls[i].url].timestamp = CACHE_DURATION

\* C7 as claimed: a call with the same input as the call that returned
\* last, made less than 600 seconds after that call was made, returns the
\* same report at once, without a call to the upstream.
RepeatWithinWindowHits ==
    [][\A rawUrl \in RawUrls :
         (/\ AuditUrl(rawUrl)
          /\ Ended
          /\ returned.input = rawUrl
          /\ clock - returned.now < CACHE_DURATION)
            => /\ returned'.upstream = 0
               /\ returned'.result = returned.result
               /\ returned'.now = clock
               /\ UNCHANGED calls]_vars

\* C7 amended: the same, for a first call that missed the cache and wrote
\* the entry itself (the window runs from the stored timestamp, which a hit
\* does not refresh).
RepeatAfterMissHits ==
    [][\A rawUrl \in RawUrls :
         (/\ AuditUrl(rawUrl)
          /\ Ended
          /\ ~returned.hit
          /\ returned.input = rawUrl
          /\ clock - returned.now < CACHE_DURATION)
            => /\ returned'.upstream = 0
               /\ returned'.result = returned.result
               /\ returned'.now = clock
               /\ UNCHANGED calls]_vars

\* C7 witness: a real report served from the cache 599 seconds after the
\* call that stored it.
RepeatAfterMissHitsWitness ==
    /\ Ended
    /\ returned.hit
    /\ returned.input = "example.com"
    /\ returned.now = CACHE[returned.url].timestamp + 599
    /\ ~returned.result[1].is_mock

\* C8: a network error, a timeout or an undecodable body ends in the
\* fallback report for the call's URL.
FailureFallsBack ==
    (Ended /\ returned.resp # <<>> /\ returned.resp[1] \in UpstreamFailures)
        => /\ returned.raised = <<>>
           /\ Len(returned.result) = 1
           /\ returned.result[1].is_mock
           /\ returned.result[1].scores.performance = 72
           /\ returned.result[1].url = returned.url

\* C8 witness: example.com, upstream unreachable, fallback stored under
\* https://example.com.
FailureFallsBackWitness ==
    /\ Answered(NetworkError)
    /\ returned.input = "example.com"
    /\ returned.result[1].url = "https://example.com"
    /\ returned.result[1].scores.performance = 72
    /\ CACHE["https://example.com"].data = returned.result[1]

\* the fallback reports the state holds: what a call that fell back
\* returned, and the mock reports in the cache
FellBack ==
    /\ Ended
    /\ ~returned.hit
    /\ returned.raised = <<>>
    /\ \/ returned.resp = <<>>
       \/ returned.resp[1].kind # "response"
       \/ ~IsSuccess(returned.resp[1].status)
       \/ returned.resp[1].body.json = <<>>
       \/ \E i \in 1..Len(returned.resp[1].body.json[1].audits) :
             ScoreRaises(returned.resp[1].body.json[1].audits[i])

FallbackReports ==
    (IF FellBack THEN {returned.result[1]} ELSE {})
        \cup { CACHE[k].data : k \in {u \in DOMAIN CACHE : CACHE[u].data.is_mock} }

\* C9 as claimed: any two fallback reports are identical in every field.
FallbackReportsIdentical ==
    \A r1, r2 \in FallbackReports : r1.is_mock /\ r1 = r2

\* C9 amended: any two fallback reports are identical in every field but
\* url, which is the normalized URL of the call, and have is_mock = true.
FallbackReportsIdenticalButUrl ==
    /\ \A r1, r2 \in FallbackReports :
          r1.is_mock /\ [r1 EXCEPT !.url = r2.url] = r2
    /\ FellBack => returned.result[1].url = returned.url
    /\ \A k \in DOMAIN CACHE : CACHE[k].data.is_mock => CACHE[k].data.url = k

\* C9 witness: fallback reports for two URLs, one of them just returned.
FallbackReportsIdenticalButUrlWitness ==
    /\ FellBack
    /\ \E r1, r2 \in FallbackReports : r1.url # r2.url

\* C10, under NormSpec: the opportunities of a normalized report are the
\* audits of type "opportunity" with a score below 0.9 (no score: excluded),
\* by saving descending, ties in iteration order, the first 5 of them; the
\* report has is_mock = false.  (A payload with "score": null on an
\* opportunity is not normalized at all: line 102 raises, see C1.)
Eligible(audits) ==
    { i \in 1..Len(audits) :
        /\ audits[i].type = "opportunity"
        /\ audits[i].score # NoKey
        /\ audits[i].score < 90 }

SavingOf(audit) == IF audit.saving = NoKey THEN 0 ELSE audit.saving

\* audit i comes before audit j in the ranking
RanksBefore(audits, i, j) ==
    \/ SavingOf(audits[i]) > SavingOf(audits[j])
    \/ SavingOf(audits[i]) = SavingOf(audits[j]) /\ i < j

\* the audit an opportunity was made from (audit keys are unique)
AuditOf(audits, opp) == CHOOSE i \in 1..Len(audits) : audits[i].id = opp.id

MissReturns(url) ==
    \/ \E i \in 1..Len(calls), resp \in Responses(data) :
          calls[i].url = url /\ AuditUrlResume(i, resp)
    \/ \E rawUrl \in RawUrls :
          /\ NormalizeUrl(rawUrl) = url
          /\ ~CacheFresh(CACHE, url, clock)
          /\ ForceMock(url)
          /\ AuditUrl(rawUrl)

Keys == { NormalizeUrl(rawUrl) : rawUrl \in RawUrls }

\* C11 as claimed: a call that missed the cache stores its report under its
\* normalized URL with the time of the write as timestamp, however long the
\* upstream took to answer.
WrittenAtWriteTime ==
    [][\A url \in Keys :
         MissReturns(url) =>
            /\ url \in DOMAIN CACHE'
            /\ CACHE'[url].data = returned'.result[1]
            /\ CACHE'[url].timestamp = clock']_vars

\* C12: a call that finds no fresh entry and is not a forced mock goes to
\* the upstream with a request of its own, whether or not a call for the
\* same URL is already there, and leaves the cache and the other calls
\* alone; in one step at most one call leaves client.get, with what the
\* answer to its own request makes, and the others stay in flight.
NoCoalescing ==
    [][/\ \A rawUrl \in RawUrls :
            LET url == NormalizeUrl(rawUrl)
            IN  (/\ AuditUrl(rawUrl)
                 /\ ~CacheFresh(CACHE, url, clock)
                 /\ ~ForceMock(url))
                   => /\ calls' = Append(calls, Awaiting(rawUrl, url, clock))
                      /\ calls'[Len(calls')].params.url = url
                      /\ UNCHANGED <<CACHE, returned>>
       /\ Len(calls') >= Len(calls) - 1
       /\ Len(calls') = Len(calls) => calls' = calls
       /\ Len(calls') = Len(calls) - 1 =>
            \E i \in 1..Len(calls) :
               /\ calls' = RemoveAt(calls, i)
               /\ ~returned'.hit
               /\ returned'.upstream = 1
               /\ Len(returned'.resp) = 1
               /\ returned'.url = calls[i].url
               /\ returned'.now = calls[i].now
               /\ returned'.result = Handle(calls[i].url, returned'.resp[1]).result]_vars

\* C12 witness: two calls for https://example.com, the second made later
\* than the first, are both in client.get and nothing is stored for the URL.
NoCoalescingWitness ==
    /\ Len(calls) = 2
    /\ calls[1].url = calls[2].url
    /\ calls[1].now < calls[2].now
    /\ calls[1].url \notin DOMAIN CACHE

\* C13: in every state every entry is a complete (report, timestamp) pair
\* for its key, a report a single call makes and a time a call looked the
\* key up at; a call served from the cache got exactly the stored report;
\* and the entry under the key of the call that wrote last is that call's
\* report with that call's timestamp, whatever calls wrote before it.
CacheNeverCorrupted ==
    /\ \A k \in DOMAIN CACHE :
          /\ DOMAIN CACHE[k] = {"data", "timestamp"}
          /\ CACHE[k].data \in {MockReport(k), RealReport(k, data)}
          /\ CACHE[k].timestamp \in 0..clock
    /\ Ended =>
          /\ returned.url \in DOMAIN CACHE
          /\ returned.result = <<CACHE[returned.url].data>>
          /\ ~returned.hit => CACHE[returned.url].timestamp = returned.now

\* C13 witness: two calls for one key were in client.get together, the one
\* that started later wrote first, and the cache now holds the pair of the
\* one that wrote last.
CacheNeverCorruptedWitness ==
    /\ Ended
    /\ ~returned.hit
    /\ returned.upstream = 1
    /\ returned.replaced
    /\ CACHE[returned.url] = [data |-> returned.result[1], timestamp |-> returned.now]

\* the upstream did not deliver a payload the normalizer turns into a report
UpstreamFailed(resp) ==
    \/ resp.kind # "response"
    \/ ~IsSuccess(resp.status)
    \/ resp.body.json = <<>>
    \/ \E i \in 1..Len(resp.body.json[1].audits) :
          ScoreRaises(resp.body.json[1].audits[i])

\* C14: a call that has ended made no upstream request when it was served
\* from the cache or its URL contains "mock", and exactly one otherwise; it
\* got one answer to that request, and when that answer was a failure the
\* call ended right there with the fallback report.  A call in client.get
\* has one request out.
OneUpstreamAttempt ==
    /\ Ended =>
          /\ returned.upstream =
                IF returned.hit \/ Contains(returned.url, "mock") THEN 0 ELSE 1
          /\ Len(returned.resp) = returned.upstream
          /\ (returned.resp # <<>> /\ UpstreamFailed(returned.resp[1]))
                => returned.result = <<MockReport(returned.url)>>
    /\ \A i \in 1..Len(calls) :
          /\ ~Contains(calls[i].url, "mock")
          /\ calls[i].params.url = calls[i].url

\* C14 witness: the one request of a call for example.com was answered
\* with HTTP 500 and the call ended with the fallback report.
OneUpstreamAttemptWitness ==
    /\ Answered(Response(500, Undecodable))
    /\ returned.upstream = 1
    /\ returned.result[1].is_mock
    /\ ~Contains(returned.url, "mock")

\* C15, under FairSpec: whenever calls are in client.get, a later moment
\* comes at which all of them have returned, whatever calls come and go
\* meanwhile; and a call whose request timed out returned the fallback
\* report.
EveryCallReturns ==
    /\ (calls # <<>>) ~> (calls = <<>>)
    /\ [](Answered(Timeout) =>
             /\ returned.raised = <<>>
             /\ returned.result = <<MockReport(returned.url)>>)

\* C15 witness: a call whose request timed out has returned the fallback
\* report while a call that started before it is still in client.get.
EveryCallReturnsWitness ==
    /\ Answered(Timeout)
    /\ returned.result[1].is_mock
    /\ calls # <<>>
    /\ calls[1].now < returned.now

\* C16: a call that ends in fallback leaves its mock report in the cache
\* under its key, with its timestamp; and a call that starts while a mock
\* report is stored fresh under its key returns that report at once, with
\* no request to the upstream (which may well answer by now) and no change
\* to the cache.
FallbackIsCached ==
    [][/\ FellBack' =>
            /\ returned'.url \in DOMAIN CACHE'
            /\ CACHE'[returned'.url] =
                  [data |-> MockReport(returned'.url), timestamp |-> returned'.now]
       /\ \A rawUrl \in RawUrls :
            LET url == NormalizeUrl(rawUrl)
            IN  (/\ AuditUrl(rawUrl)
                 /\ url \in DOMAIN CACHE
                 /\ CACHE[url].data.is_mock
                 /\ clock - CACHE[url].timestamp < CACHE_DURATION)
                   => /\ returned'.hit
                      /\ returned'.upstream = 0
                      /\ returned'.result = <<CACHE[url].data>>
                      /\ returned'.result[1].is_mock
                      /\ UNCHANGED <<CACHE, calls>>]_vars

\* C16 witness: a call for example.com got the fallback report from the
\* cache, 599 seconds after the call that fell back had looked the key up.
FallbackIsCachedWitness ==
    /\ Ended
    /\ returned.hit
    /\ returned.input = "example.com"
    /\ returned.result[1].is_mock
    /\ returned.upstream = 0
    /\ returned.now = CACHE[returned.url].timestamp + 599

\* C17: no step removes a key from the cache; the only entry a step adds
\* or changes is the one under the key of the call that returns in that
\* step from a miss, every other entry staying as it was; and a call
\* served from the cache leaves the whole cache as it was, the timestamp
\* of the entry it was served included.
CacheFrame ==
    [][/\ DOMAIN CACHE \subseteq DOMAIN CACHE'
       /\ \A k \in DOMAIN CACHE' :
            (k \notin DOMAIN CACHE \/ CACHE'[k] # CACHE[k])
               => /\ returned' # returned
                  /\ ~returned'.hit
                  /\ returned'.url = k
       /\ \A rawUrl \in RawUrls :
            (AuditUrl(rawUrl) /\ CacheFresh(CACHE, NormalizeUrl(rawUrl), clock))
               => /\ returned'.hit
                  /\ UNCHANGED CACHE]_vars

\* C17 witness: a call has written its key while the entry of the other
\* key, stale by then, is still stored.
CacheFrameWitness ==
    /\ Ended
    /\ ~returned.hit
    /\ CACHE[returned.url].timestamp = returned.now
    /\ \E k \in DOMAIN CACHE :
          /\ k # returned.url
          /\ returned.now - CACHE[k].timestamp >= CACHE_DURATION

\* C18: a report with is_mock = false, stored or returned, is what lines
\* 84-137 make of the provider's payload for the URL it is stored under or
\* was asked for, and carries that URL; a call that returned one without
\* the cache had a 200 answer with that payload; and a call that did not
\* get such an answer (forced mock, no answer, non-2xx, undecodable or
\* unprocessable body) returned a report with is_mock = true.
RealReportsAreReal ==
    /\ \A k \in DOMAIN CACHE :
          ~CACHE[k].data.is_mock
             => /\ CACHE[k].data = RealReport(k, data)
                /\ CACHE[k].data.url = k
                /\ ~ForceMock(k)
    /\ (Ended /\ returned.result # <<>> /\ ~returned.result[1].is_mock)
          => /\ returned.result[1] = RealReport(returned.url, data)
             /\ returned.result[1].url = returned.url
             /\ \/ returned.hit
                \/ returned.resp = <<Response(200, [json |-> <<data>>])>>
    /\ (Ended /\ ~returned.hit
              /\ (returned.resp = <<>> \/ UpstreamFailed(returned.resp[1])))
          => /\ returned.result # <<>>
             /\ returned.result[1].is_mock

\* C18 witness: a call got a 200 answer, returned the normalized report and
\* stored it under its URL, replacing the entry of a call that started
\* later.
RealReportsAreRealWitness ==
    /\ Answered(Response(200, [json |-> <<data>>]))
    /\ ~returned.result[1].is_mock
    /\ returned.replaced
    /\ CACHE[returned.url].data = returned.result[1]
    /\ returned.result[1].url = "https://example.com"

\* C19 as claimed: no step replaces the entry of a key by one with an
\* older timestamp.
TimestampNeverDecreases ==
    [][\A k \in DOMAIN CACHE :
         /\ k \in DOMAIN CACHE'
         /\ CACHE'[k].timestamp >= CACHE[k].timestamp]_vars

====
